---- MODULE Spec2Model ----
(***************************************************************************)
(* space-news-slack-bot (src/news_bot.py): the orchestrator main(), the    *)
(* Seen-Set store load_cache/save_cache, the resolver summarise and the    *)
(* notifier send_slack, as a state machine over successive runs of the     *)
(* scheduled job.                                                          *)
(*                                                                         *)
(* Text is a sequence of one-character strings, so that slicing, splitting *)
(* and the test of the last character are computed as Python computes      *)
(* them. Titles and URLs are never inspected by the code and stay strings. *)
(***************************************************************************)
EXTENDS Integers, Sequences, FiniteSets, TLC

VARIABLES
    file,       \* content of CACHE_FILE on disk
    pc,         \* position of the process in main()
    err,        \* what made the run end in error: "none", "load", "adapter", "save"
    run,        \* number of the current run of the job
    seen,       \* main: seen
    new_seen,   \* main: new_seen
    fi,         \* index in SCRAPER_FUNCS of the adapter of the outer loop
    found,      \* main: found
    sent,       \* log: the calls of send_slack of this run that returned, in order
    lastStep,   \* log: the last pass through the body of the inner loop
    lastPost,   \* log: the last call of send_slack in this run
    scrape,     \* one iteration of a static-HTML adapter over a page
    firsts,     \* log: the URLs yielded in this run, in the order of their first yield
    failed,     \* log: URLs with an attempt of this run that raised
    yielded,    \* log: URLs yielded by the adapters in this run
    cands,      \* log: number of candidates yielded in this run
    writes,     \* log: number of times this run opened CACHE_FILE for writing
    startFile,  \* log: content of CACHE_FILE when this run started
    warned,     \* log: the ZERO URLs warning was emitted for the adapter exhausted last
    prev,       \* log: summary of the previous run
    call        \* one call of summarise on its own: arguments, article, result

vars == <<file, pc, err, run, seen, new_seen, fi, found, sent,
          lastStep, failed, yielded, cands, writes, startFile, warned, prev, call, lastPost, scrape, firsts>>

----------------------------------------------------------------------------
(* Bounds of the model *)

\* candidates the adapters yield in one run, all together, at most
MaxCands == 3

\* runs of the job
MaxRuns == 2

----------------------------------------------------------------------------
(* Text *)

\* "Launch successful today."
LaunchText ==
    <<"L","a","u","n","c","h"," ","s","u","c","c","e","s","s","f","u","l"," ",
      "t","o","d","a","y",".">>

\* "New radar images"
PlainText ==
    <<"N","e","w"," ","r","a","d","a","r"," ","i","m","a","g","e","s">>

\* "(no preview)"
NoPreview == <<"(","n","o"," ","p","r","e","v","i","e","w",")">>

\* the ellipsis marker: the one character U+2026
Ellipsis == <<"U+2026">>

\* s[:k]
Slice(s, k) == SubSeq(s, 1, IF Len(s) < k THEN Len(s) ELSE k)

\* s.replace("\n", " ")
ReplaceNewlines(s) == [i \in 1..Len(s) |-> IF s[i] = "\n" THEN " " ELSE s[i]]

Digits == <<"0","1","2","3","4","5","6","7","8","9">>

\* the characters str.split() and str.strip() take as whitespace: those of
\* str.isspace(). A character without a printable ASCII form is written as
\* the token "U+" and its code point.
Whitespace ==
    {"\t", "\n", "U+000B", "\f", "\r", "U+001C", "U+001D", "U+001E",
     "U+001F", " ", "U+0085", "U+00A0", "U+1680", "U+2000", "U+2001",
     "U+2002", "U+2003", "U+2004", "U+2005", "U+2006", "U+2007", "U+2008",
     "U+2009", "U+200A", "U+2028", "U+2029", "U+202F", "U+205F", "U+3000"}

IsSpace(c) == c \in Whitespace

\* s.split(): the maximal runs of non-whitespace characters, in order.
\* SplitRange gives the runs of s[lo..hi], by halves: where the cut falls
\* inside a run, the last piece of the left half and the first piece of the
\* right half are one word.
RECURSIVE SplitRange(_, _, _)
SplitRange(s, lo, hi) ==
    IF lo > hi THEN <<>>
    ELSE IF lo = hi THEN IF IsSpace(s[lo]) THEN <<>> ELSE <<(<<s[lo]>>)>>
    ELSE LET mid == (lo + hi) \div 2
             l == SplitRange(s, lo, mid)
             r == SplitRange(s, mid + 1, hi)
         IN  IF ~IsSpace(s[mid]) /\ ~IsSpace(s[mid + 1])
             THEN SubSeq(l, 1, Len(l) - 1) \o <<l[Len(l)] \o r[1]>> \o Tail(r)
             ELSE l \o r

Split(s) == SplitRange(s, 1, Len(s))

\* " ".join(ws), by halves
RECURSIVE Join(_)
Join(ws) ==
    IF ws = <<>> THEN <<>>
    ELSE IF Len(ws) = 1 THEN ws[1]
    ELSE LET h == Len(ws) \div 2 IN
         Join(SubSeq(ws, 1, h)) \o <<" ">> \o Join(SubSeq(ws, h + 1, Len(ws)))

----------------------------------------------------------------------------
(* Settings and the Seen-Set store *)

SCRAPER_FUNCS ==
    <<"get_iceye_urls", "get_rocketlab_urls", "get_capella_urls",
      "get_spacewatch_urls">>

\* get_iceye_urls and get_rocketlab_urls are generators: their body runs, and
\* can raise, at every step of the iteration. get_capella_urls and
\* get_spacewatch_urls return a list: they can raise only when called.
IsGenerator(fn) == fn \in {"get_iceye_urls", "get_rocketlab_urls"}

URLs == {"https://x/a", "https://x/b", "https://x/j"}

\* hash_url: the SHA-1 hex digest of the URL, kept to its first four hex digits
\* (as a number, which orders like the hex string).
hash_url(url) ==
    CASE url = "https://x/a" -> 34369
      [] url = "https://x/b" -> 38997
      [] url = "https://x/j" -> 7951

Keys == {hash_url(u) : u \in URLs}

Min(S) == CHOOSE x \in S : \A y \in S : x <= y

\* sorted(cache)
RECURSIVE Sorted(_)
Sorted(S) == IF S = {} THEN <<>> ELSE <<Min(S)>> \o Sorted(S \ {Min(S)})

\* CACHE_FILE: absent, a complete JSON array, or JSON text cut before its end
NoFile == [kind |-> "absent", items |-> <<>>]
JsonArray(items) == [kind |-> "array", items |-> items]
Truncated(items) == [kind |-> "truncated", items |-> items]

Range(s) == {s[i] : i \in 1..Len(s)}

Prefixes(s) == {SubSeq(s, 1, k) : k \in 0..Len(s)}

\* faulty variant: a store that cannot be parsed is read as the empty set
load_cache_lenient(f) ==
    IF f.kind = "array" THEN [raised |-> FALSE, value |-> Range(f.items)]
    ELSE [raised |-> FALSE, value |-> {}]

\* load_cache: [raised, value]
load_cache(f) ==
    IF f.kind = "absent" THEN [raised |-> FALSE, value |-> {}]
    ELSE IF f.kind = "array" THEN [raised |-> FALSE, value |-> Range(f.items)]
    ELSE [raised |-> TRUE, value |-> {}]

\* json.dump(sorted(cache), f)
Dumped(cache) == JsonArray(Sorted(cache))

----------------------------------------------------------------------------
(* 3. SUMMARY: the resolver *)

\* What the newspaper library does for one article: the step that raises
\* ("none": no step does), and the title and text it extracts.
Article(raises, title, text) == [raises |-> raises, title |-> title, text |-> text]

\* the steps of summarise that run before its try block: Config(), Article(...)
BeforeTry == {"Config", "Article"}

\* the steps inside its try block: art.download(), art.parse(), art.title, art.text
InTry == {"download", "parse", "title", "text"}

\* x or y, for text
OrElse(x, y) == IF x = <<>> THEN y ELSE x

\* the number of words kept, and the number of characters of feed text kept
PreviewWords == 100
FallbackChars == 500

\* faulty variant: only the full stop counts as an end of sentence
NeedsEllipsisFullStopOnly(preview) ==
    preview # <<>> /\ preview[Len(preview)] # "."

\* preview[-1] not in ".!?"
NeedsEllipsis(preview) ==
    preview # <<>> /\ preview[Len(preview)] \notin {".", "!", "?"}

\* faulty variant: the marker is appended whatever the last character
TerminateAlways(preview) == preview \o Ellipsis

Terminate(preview) ==
    IF NeedsEllipsis(preview) THEN preview \o Ellipsis ELSE preview

\* faulty variant: one word too many is kept
TryPreviewOffByOne(art) ==
    OrElse(Join(Slice(Split(ReplaceNewlines(art.text)), PreviewWords + 1)), NoPreview)

\* the body of the try block
TryPreview(art) ==
    OrElse(Join(Slice(Split(ReplaceNewlines(art.text)), PreviewWords)), NoPreview)

\* the except block
ExceptPreview(fallback_text) == OrElse(Slice(fallback_text, FallbackChars), NoPreview)

\* An exception raised in the try block is caught
CaughtBySummarise(step) == step \in InTry

\* summarise(url, fallback_text): [raised, title, preview]
summarise(url, fallback_text, art) ==
    IF art.raises # "none" /\ ~CaughtBySummarise(art.raises)
    THEN [raised |-> TRUE, title |-> "", preview |-> <<>>]
    ELSE IF art.raises = "none"
    THEN [raised |-> FALSE,
          title |-> IF art.title = "" THEN "Untitled" ELSE art.title,
          preview |-> Terminate(TryPreview(art))]
    ELSE [raised |-> FALSE,
          title |-> "Untitled (feed)",
          preview |-> Terminate(ExceptPreview(fallback_text))]

----------------------------------------------------------------------------
(* 4. SLACK: the notifier *)

\* What requests.post does: it raises (timeout, connection error), or it
\* returns a response with a status code.
PostRaises == [raised |-> TRUE, status |-> 0]
Response(status) == [raised |-> FALSE, status |-> status]

\* r.raise_for_status() raises for the 4xx and 5xx codes
raise_for_status(r) == r.status >= 400 /\ r.status < 600

\* send_slack(title, summary, url): TRUE when it raises
send_slack_raises(r) == r.raised \/ raise_for_status(r)

\* time.sleep(1.1) is the last statement: reached when nothing raised before it
Sleeps(r) == ~r.raised /\ ~raise_for_status(r)

\* What one call of send_slack did: the calls of requests.post it made (there
\* is no loop around the call), what came back, and whether it slept
send_slack(r) ==
    [posts |-> 1, status |-> r.status, raised |-> send_slack_raises(r),
     slept |-> Sleeps(r)]

NoSend == [posts |-> 0, status |-> 0, raised |-> FALSE, slept |-> FALSE]

----------------------------------------------------------------------------
(* urllib.parse of Python 3.11, as urljoin uses it *)

LowerLetters ==
    <<"a","b","c","d","e","f","g","h","i","j","k","l","m">> \o
    <<"n","o","p","q","r","s","t","u","v","w","x","y","z">>
UpperLetters ==
    <<"A","B","C","D","E","F","G","H","I","J","K","L","M">> \o
    <<"N","O","P","Q","R","S","T","U","V","W","X","Y","Z">>
HexDigits ==
    Range(Digits) \cup {"a","b","c","d","e","f","A","B","C","D","E","F"}

\* scheme_chars
scheme_chars ==
    Range(LowerLetters) \cup Range(UpperLetters) \cup Range(Digits)
        \cup {"+", "-", "."}

\* uses_relative: the schemes a relative reference is resolved for
uses_relative ==
    {<<>>, <<"f","t","p">>, <<"h","t","t","p">>,
     <<"g","o","p","h","e","r">>, <<"n","n","t","p">>, <<"i","m","a","p">>,
     <<"w","a","i","s">>, <<"f","i","l","e">>, <<"h","t","t","p","s">>,
     <<"s","h","t","t","p">>, <<"m","m","s">>,
     <<"p","r","o","s","p","e","r","o">>, <<"r","t","s","p">>,
     <<"r","t","s","p","s">>, <<"r","t","s","p","u">>, <<"s","f","t","p">>,
     <<"s","v","n">>, <<"s","v","n","+","s","s","h">>, <<"w","s">>,
     <<"w","s","s">>}

\* uses_netloc
uses_netloc ==
    {<<>>, <<"f","t","p">>, <<"h","t","t","p">>,
     <<"g","o","p","h","e","r">>, <<"n","n","t","p">>,
     <<"t","e","l","n","e","t">>, <<"i","m","a","p">>, <<"w","a","i","s">>,
     <<"f","i","l","e">>, <<"m","m","s">>, <<"h","t","t","p","s">>,
     <<"s","h","t","t","p">>, <<"s","n","e","w","s">>,
     <<"p","r","o","s","p","e","r","o">>, <<"r","t","s","p">>,
     <<"r","t","s","p","s">>, <<"r","t","s","p","u">>,
     <<"r","s","y","n","c">>, <<"s","v","n">>,
     <<"s","v","n","+","s","s","h">>, <<"s","f","t","p">>, <<"n","f","s">>,
     <<"g","i","t">>, <<"g","i","t","+","s","s","h">>, <<"w","s">>,
     <<"w","s","s">>}

\* uses_params
uses_params ==
    {<<>>, <<"f","t","p">>, <<"h","d","l">>,
     <<"p","r","o","s","p","e","r","o">>, <<"h","t","t","p">>,
     <<"i","m","a","p">>, <<"h","t","t","p","s">>, <<"s","h","t","t","p">>,
     <<"r","t","s","p">>, <<"r","t","s","p","s">>, <<"r","t","s","p","u">>,
     <<"s","i","p">>, <<"s","i","p","s">>, <<"m","m","s">>,
     <<"s","f","t","p">>, <<"t","e","l">>}

\* _WHATWG_C0_CONTROL_OR_SPACE: the characters U+0000 to U+0020
C0ControlOrSpace ==
    {"U+0000", "U+0001", "U+0002", "U+0003", "U+0004", "U+0005", "U+0006",
     "U+0007", "U+0008", "\t", "\n", "U+000B", "\f", "\r", "U+000E",
     "U+000F", "U+0010", "U+0011", "U+0012", "U+0013", "U+0014", "U+0015",
     "U+0016", "U+0017", "U+0018", "U+0019", "U+001A", "U+001B", "U+001C",
     "U+001D", "U+001E", "U+001F", " "}

\* _UNSAFE_URL_BYTES_TO_REMOVE
UnsafeBytes == {"\t", "\r", "\n"}

\* the characters whose NFKC form holds one of '/', '?', '#', '@', ':'
NFKCUnsafe ==
    {"U+2047", "U+2048", "U+2049", "U+2100", "U+2101", "U+2105", "U+2106",
     "U+2A74", "U+FE13", "U+FE16", "U+FE55", "U+FE56", "U+FE5F", "U+FE6B",
     "U+FF03", "U+FF0F", "U+FF1A", "U+FF1F", "U+FF20"}

\* s[i:] and s[:i], with the places counted from 1
From(s, i) == SubSeq(s, i, Len(s))
Before(s, i) == SubSeq(s, 1, i - 1)

\* s.find(c, start): the first place of c at or after start, 0 when none
find(s, c, start) ==
    LET at == {i \in start..Len(s) : s[i] = c}
    IN  IF at = {} THEN 0 ELSE Min(at)

\* s.rfind(c): the last place of c, 0 when none
rfind(s, c) ==
    LET at == {i \in 1..Len(s) : s[i] = c}
    IN  IF at = {} THEN 0 ELSE CHOOSE i \in at : \A j \in at : j <= i

\* s.lstrip(chars)
RECURSIVE lstripOf(_, _)
lstripOf(s, chars) ==
    IF s # <<>> /\ Head(s) \in chars THEN lstripOf(Tail(s), chars) ELSE s

\* s.lower(), for a text of scheme_chars
lower(s) ==
    [i \in 1..Len(s) |->
        IF s[i] \in Range(UpperLetters)
        THEN LowerLetters[CHOOSE k \in 1..Len(UpperLetters) : UpperLetters[k] = s[i]]
        ELSE s[i]]

\* s.split(c): the pieces between the occurrences of c, the empty ones too
RECURSIVE SplitAt(_, _)
SplitAt(s, c) ==
    LET i == find(s, c, 1)
    IN  IF i = 0 THEN <<s>> ELSE <<Before(s, i)>> \o SplitAt(From(s, i + 1), c)

\* c.join(ps)
RECURSIVE JoinWith(_, _)
JoinWith(ps, c) ==
    IF ps = <<>> THEN <<>>
    ELSE IF Len(ps) = 1 THEN ps[1]
    ELSE ps[1] \o <<c>> \o JoinWith(Tail(ps), c)

\* int(s, 10) for a text of decimal digits
RECURSIVE DecimalValue(_)
DecimalValue(s) ==
    IF s = <<>> THEN 0
    ELSE 10 * DecimalValue(Before(s, Len(s)))
            + (CHOOSE k \in 1..Len(Digits) : Digits[k] = s[Len(s)]) - 1

\* IPv4Address._parse_octet accepts the text: one to three decimal digits, no
\* leading zero, at most 255
IsOctet(s) ==
    /\ s # <<>>
    /\ Range(s) \subseteq Range(Digits)
    /\ Len(s) <= 3
    /\ s = <<"0">> \/ s[1] # "0"
    /\ DecimalValue(s) <= 255

\* IPv4Address(s) does not raise: four octets between dots
IsIPv4(s) ==
    /\ s # <<>>
    /\ "/" \notin Range(s)
    /\ Len(SplitAt(s, ".")) = 4
    /\ \A i \in 1..4 : IsOctet(SplitAt(s, ".")[i])

\* IPv6Address._parse_hextet accepts the text: one to four hexadecimal digits
IsHextet(s) == s # <<>> /\ Range(s) \subseteq HexDigits /\ Len(s) <= 4

\* the parts between the colons make an address: at most nine, one '::' at
\* most, which stands for one hextet at least, and 8 hextets without it
HextetsFit(parts) ==
    LET n == Len(parts)
        skips == {i \in 2..(n - 1) : parts[i] = <<>>}
        skip == CHOOSE i \in skips : TRUE
        hi == IF parts[1] = <<>> THEN skip - 2 ELSE skip - 1
        lo == IF parts[n] = <<>> THEN n - skip - 1 ELSE n - skip
    IN  /\ n <= 9
        /\ Cardinality(skips) <= 1
        /\ IF skips # {}
           THEN /\ parts[1] = <<>> => hi = 0
                /\ parts[n] = <<>> => lo = 0
                /\ 8 - (hi + lo) >= 1
                /\ \A i \in (1..hi) \cup ((n - lo + 1)..n) : IsHextet(parts[i])
           ELSE /\ n = 8
                /\ \A i \in 1..n : IsHextet(parts[i])

\* the text split at its colons makes an address: three parts at least, and
\* a dotted last part is an IPv4 address, which stands for two hextets
PartsFit(split) ==
    LET last == split[Len(split)]
    IN  /\ Len(split) >= 3
        /\ "." \in Range(last) => IsIPv4(last)
        /\ HextetsFit(IF "." \in Range(last)
                      THEN Before(split, Len(split)) \o <<(<<"0">>), (<<"0">>)>>
                      ELSE split)

\* IPv6Address._ip_int_from_string accepts the text
IsIPv6Text(s) == s # <<>> /\ PartsFit(SplitAt(s, ":"))

\* IPv6Address(s) does not raise: an address, and a scope id after '%' that
\* is not empty and holds no '%'
IsIPv6(s) ==
    LET p == find(s, "%", 1)
    IN  /\ "/" \notin Range(s)
        /\ p # 0 => Len(s) > p /\ "%" \notin Range(From(s, p + 1))
        /\ IsIPv6Text(IF p = 0 THEN s ELSE Before(s, p))

\* the pattern \Av[a-fA-F0-9]+\..+\Z of an IPvFuture address
IsIPvFuture(s) ==
    LET dot == find(s, ".", 1)
    IN  /\ dot >= 3
        /\ s[1] = "v"
        /\ \A k \in 2..(dot - 1) : s[k] \in HexDigits
        /\ Len(s) > dot

\* _check_bracketed_host raises ValueError
check_bracketed_host_raises(hostname) ==
    IF hostname # <<>> /\ Head(hostname) = "v"
    THEN ~IsIPvFuture(hostname)
    ELSE IsIPv4(hostname) \/ ~IsIPv6(hostname)

\* what makes urlsplit raise ValueError: a bracket without the other one, a
\* bracketed host, netloc.partition('[')[2].partition(']')[0], that is no
\* IPv6 or IPvFuture address, or (_checknetloc) a character of the netloc
\* whose NFKC form holds a delimiter
netloc_raises(netloc) ==
    LET opened == "[" \in Range(netloc)
        closed == "]" \in Range(netloc)
        after == From(netloc, find(netloc, "[", 1) + 1)
        upto == find(after, "]", 1)
    IN  \/ opened /\ ~closed
        \/ closed /\ ~opened
        \/ /\ opened /\ closed
           /\ check_bracketed_host_raises(
                    IF upto = 0 THEN after ELSE Before(after, upto))
        \/ Range(netloc) \cap NFKCUnsafe # {}

\* urlsplit, last step: the query is cut off what precedes the fragment
SplitQuery(scheme, netloc, unfragmented, fragment) ==
    LET mark == find(unfragmented, "?", 1)
    IN  [scheme |-> scheme, netloc |-> netloc,
         path |-> IF mark = 0 THEN unfragmented ELSE Before(unfragmented, mark),
         query |-> IF mark = 0 THEN <<>> ELSE From(unfragmented, mark + 1),
         fragment |-> fragment, raised |-> netloc_raises(netloc)]

\* urlsplit, third step: the fragment is cut off what follows the netloc
SplitFragment(scheme, netloc, tail) ==
    LET hash == find(tail, "#", 1)
    IN  SplitQuery(scheme, netloc,
                   IF hash = 0 THEN tail ELSE Before(tail, hash),
                   IF hash = 0 THEN <<>> ELSE From(tail, hash + 1))

\* urlsplit, second step: what starts with '//' has a netloc, which ends
\* before the first of '/', '?', '#' (_splitnetloc(url, 2))
SplitNetloc(scheme, rest) ==
    LET delims == {k \in 3..Len(rest) : rest[k] \in {"/", "?", "#"}}
        delim == IF delims = {} THEN Len(rest) + 1 ELSE Min(delims)
    IN  IF Len(rest) >= 2 /\ rest[1] = "/" /\ rest[2] = "/"
        THEN SplitFragment(scheme, SubSeq(rest, 3, delim - 1), From(rest, delim))
        ELSE SplitFragment(scheme, <<>>, rest)

\* urlsplit, first step: the scheme is what precedes the first ':', when it
\* starts with a letter and is made of scheme_chars
SplitScheme(clean, scheme) ==
    LET colon == find(clean, ":", 1)
    IN  IF /\ colon > 1
           /\ clean[1] \in Range(LowerLetters) \cup Range(UpperLetters)
           /\ \A k \in 1..(colon - 1) : clean[k] \in scheme_chars
        THEN SplitNetloc(lower(Before(clean, colon)), From(clean, colon + 1))
        ELSE SplitNetloc(scheme, clean)

\* urlsplit(url, scheme): the reference loses the control characters and
\* spaces at its start and every tab and line end, and is split. The default
\* scheme is '' or the scheme of the base, which has none of these characters.
urlsplit(url, scheme) ==
    LET Kept(c) == c \notin UnsafeBytes
    IN  SplitScheme(SelectSeq(lstripOf(url, C0ControlOrSpace), Kept), scheme)

\* _splitparams(url): the place of the ';' that starts the parameters of the
\* last segment of the path, 0 when it has none
splitparams(url) ==
    IF "/" \in Range(url) THEN find(url, ";", rfind(url, "/"))
    ELSE find(url, ";", 1)

\* urlparse, last step: the parameters are cut off the path
SplitParams(s) ==
    LET semi == IF s.scheme \in uses_params /\ ";" \in Range(s.path)
                THEN splitparams(s.path) ELSE 0
    IN  [scheme |-> s.scheme, netloc |-> s.netloc,
         path |-> IF semi = 0 THEN s.path ELSE Before(s.path, semi),
         params |-> IF semi = 0 THEN <<>> ELSE From(s.path, semi + 1),
         query |-> s.query, fragment |-> s.fragment, raised |-> s.raised]

\* urlparse(url, scheme)
urlparse(url, scheme) == SplitParams(urlsplit(url, scheme))

\* urlunsplit((scheme, netloc, url, query, fragment))
urlunsplit(scheme, netloc, url, query, fragment) ==
    LET located ==
            IF \/ netloc # <<>>
               \/ /\ scheme # <<>>
                  /\ scheme \in uses_netloc
                  /\ ~(Len(url) >= 2 /\ url[1] = "/" /\ url[2] = "/")
            THEN <<"/", "/">> \o netloc
                    \o (IF url # <<>> /\ url[1] # "/" THEN <<"/">> \o url ELSE url)
            ELSE url
    IN  (IF scheme # <<>> THEN scheme \o <<":">> ELSE <<>>)
            \o located
            \o (IF query # <<>> THEN <<"?">> \o query ELSE <<>>)
            \o (IF fragment # <<>> THEN <<"#">> \o fragment ELSE <<>>)

\* urlunparse((scheme, netloc, url, params, query, fragment))
urlunparse(scheme, netloc, url, params, query, fragment) ==
    urlunsplit(scheme, netloc,
               IF params # <<>> THEN url \o <<";">> \o params ELSE url,
               query, fragment)

\* segments[1:-1] = filter(None, segments[1:-1]): the empty segments other
\* than the first and the last are dropped
FilterInner(segments) ==
    LET n == Len(segments)
        Full(seg) == seg # <<>>
    IN  IF n <= 2 THEN segments
        ELSE <<segments[1]>> \o SelectSeq(SubSeq(segments, 2, n - 1), Full)
                \o <<segments[n]>>

\* for seg in segments: '..' drops the last segment kept so far, if any,
\* '.' is skipped, any other segment is kept
RECURSIVE Resolve(_, _)
Resolve(segments, resolved_path) ==
    IF segments = <<>> THEN resolved_path
    ELSE LET seg == Head(segments) IN
         Resolve(Tail(segments),
                 IF seg = <<".", ".">>
                 THEN Before(resolved_path, Len(resolved_path))
                 ELSE IF seg = <<".">> THEN resolved_path
                 ELSE Append(resolved_path, seg))

\* segments: those of a rooted reference, or those of the base, without the
\* last one when it is not empty, and then those of the reference
Segments(bpath, path) ==
    LET bsplit == SplitAt(bpath, "/")
        base_parts == IF bsplit[Len(bsplit)] # <<>>
                      THEN Before(bsplit, Len(bsplit)) ELSE bsplit
    IN  IF path # <<>> /\ path[1] = "/" THEN SplitAt(path, "/")
        ELSE FilterInner(base_parts \o SplitAt(path, "/"))

\* the path made of the segments: resolved, closed by '/' when the last
\* segment is '.' or '..', and '/' when nothing is left
PathOf(segments) ==
    LET resolved == Resolve(segments, <<>>)
        joined == JoinWith(IF segments[Len(segments)] \in {<<".">>, <<".", ".">>}
                           THEN Append(resolved, <<>>) ELSE resolved, "/")
    IN  IF joined = <<>> THEN <<"/">> ELSE joined

\* the path of the joined URL, from the path of the base and of the reference
ResolvedPath(bpath, path) == PathOf(Segments(bpath, path))

\* urljoin(base, url) raises ValueError when urlparse does, of either
urljoin_raises(base, url) ==
    /\ base # <<>>
    /\ url # <<>>
    /\ \/ urlparse(base, <<>>).raised
       \/ urlparse(url, urlparse(base, <<>>).scheme).raised

\* what urljoin returns for the parsed base b and the parsed reference u
Joined(b, u, url) ==
    LET netloc == IF u.scheme \in uses_netloc THEN b.netloc ELSE u.netloc
    IN  IF u.scheme # b.scheme \/ u.scheme \notin uses_relative THEN url
        ELSE IF u.scheme \in uses_netloc /\ u.netloc # <<>>
        THEN urlunparse(u.scheme, u.netloc, u.path, u.params, u.query,
                        u.fragment)
        ELSE IF u.path = <<>> /\ u.params = <<>>
        THEN urlunparse(u.scheme, netloc, b.path, b.params,
                        IF u.query = <<>> THEN b.query ELSE u.query,
                        u.fragment)
        ELSE urlunparse(u.scheme, netloc, ResolvedPath(b.path, u.path),
                        u.params, u.query, u.fragment)

\* urljoin(base, url), when it does not raise
urljoin(base, url) ==
    IF base = <<>> THEN url
    ELSE IF url = <<>> THEN base
    ELSE Joined(urlparse(base, <<>>),
                urlparse(url, urlparse(base, <<>>).scheme), url)

----------------------------------------------------------------------------
(* 2. SCRAPERS: the static-HTML adapters get_iceye_urls, get_rocketlab_urls *)

\* s.strip(): the whitespace at both ends is removed
RECURSIVE lstrip(_)
lstrip(s) == IF s # <<>> /\ IsSpace(Head(s)) THEN lstrip(Tail(s)) ELSE s
RECURSIVE rstrip(_)
rstrip(s) ==
    IF s # <<>> /\ IsSpace(s[Len(s)]) THEN rstrip(SubSeq(s, 1, Len(s) - 1)) ELSE s
strip(s) == rstrip(lstrip(s))

startswith(s, p) == Len(s) >= Len(p) /\ SubSeq(s, 1, Len(p)) = p
endswith(s, p) == Len(s) >= Len(p) /\ SubSeq(s, Len(s) - Len(p) + 1, Len(s)) = p

\* "Read more"
ReadMore == <<"R","e","a","d"," ","m","o","r","e">>

\* the test each adapter applies to the text of an anchor
Matches(fn, a) ==
    IF fn = "get_iceye_urls" THEN startswith(strip(a.text), ReadMore)
    ELSE endswith(strip(a.text), ReadMore)

\* SOURCES["rocketlab"]: "https://rocketlabcorp.com/updates/"
RocketlabSource ==
    <<"h","t","t","p","s",":","/","/","r","o","c","k","e","t","l","a","b",
      "c","o","r","p",".","c","o","m","/","u","p","d","a","t","e","s","/">>

\* an anchor of the page: its text, and its attributes (href or none)
Anchor(text, attrs) == [text |-> text, attrs |-> attrs]
Href(h) == [href |-> h]
NoAttrs == <<>>

\* a["href"] raises KeyError when the anchor has no such attribute
HrefRaises(a) == "href" \notin DOMAIN a.attrs

\* the value each adapter yields for a matching anchor
Yielded(fn, a) ==
    IF fn = "get_iceye_urls" THEN a.attrs.href
    ELSE urljoin(RocketlabSource, a.attrs.href)

\* the body of the adapter raises at a matching anchor: KeyError, or the
\* ValueError of urljoin
YieldRaises(fn, a) ==
    \/ HrefRaises(a)
    \/ fn = "get_rocketlab_urls" /\ urljoin_raises(RocketlabSource, a.attrs.href)

NoScrape == [state |-> "none", fn |-> "", page |-> <<>>, pos |-> 0, out |-> <<>>]

----------------------------------------------------------------------------
(* What the environment supplies in the model *)

\* An adapter yields a bare URL string, or a feed entry with a link and a summary
Bare(u) == [str |-> u]
FeedEntry(u, t) == [link |-> u, summary |-> t]

\* The adapters of SCRAPER_FUNCS yield bare strings
Entries == {Bare(u) : u \in URLs}

\* "Two\nnew  sats"
ShortBody == <<"T","w","o","\n","n","e","w"," "," ","s","a","t","s">>

Articles ==
    {Article("Article", "", <<>>), Article("download", "", <<>>),
     Article("none", "ICEYE expands", ShortBody)}

\* what requests.post can do: raise, or return a 2xx response, an error status,
\* or (304) a response that is neither
Responses == {PostRaises, Response(200), Response(304), Response(500)}

\* the webhook accepts the message, or answers with a server error, or the
\* call raises
UsualResponses == {PostRaises, Response(200), Response(500)}

\* The store a run can find: none, one written by an earlier run (the empty
\* array when that run notified nothing), or one an earlier run left cut
\* the identities earlier runs can have stored: https://x/b is new to every run
StoredKeys == {hash_url("https://x/a"), hash_url("https://x/j")}

InitFiles ==
    {f : f \in
        {NoFile} \cup {Dumped(S) : S \in SUBSET StoredKeys}
            \cup {Truncated(part) :
                    part \in UNION {Prefixes(Sorted(S)) : S \in SUBSET StoredKeys}}}

----------------------------------------------------------------------------
(* 5. MAIN: the orchestrator *)

\* entry.link if hasattr(entry, "link") else entry
EntryUrl(entry) == IF "link" \in DOMAIN entry THEN entry.link ELSE entry.str

\* getattr(entry, "summary", "") if hasattr(entry, "summary") else ""
EntryDescr(entry) == IF "summary" \in DOMAIN entry THEN entry.summary ELSE <<>>

\* faulty variant: the in-run accumulator is not consulted
AlreadySeenLoadedOnly(key, s, ns) == key \in s

\* faulty variant: the loaded Seen-Set is not consulted
AlreadySeenInRunOnly(key, s, ns) == key \in ns

\* key in seen or key in new_seen
AlreadySeen(key, s, ns) == key \in s \/ key \in ns

\* except Exception: what is raised by summarise or send_slack is caught
CaughtByMain(outcome) == outcome \in {"summarise_raised", "send_slack_raised"}

\* One pass through the body of the inner loop
StepOutcome(key, s, ns, res, r) ==
    IF AlreadySeen(key, s, ns) THEN "skip"
    ELSE IF res.raised THEN "summarise_raised"
    ELSE IF send_slack_raises(r) THEN "send_slack_raised"
    ELSE "posted"

\* faulty variant: found is set where the candidate is posted
FoundOnlyWhenPosted(f, outcome) == f \/ outcome = "posted"

\* found = True is the first statement of the loop body
FoundAfter(f, outcome) == TRUE

\* if not found: the ZERO URLs warning is logged
WarnsZero(f) == ~f

\* faulty variant: the key is added before the calls, whatever they do
NewSeenAddedFirst(ns, key, outcome) == IF outcome = "skip" THEN ns ELSE ns \cup {key}

\* faulty variant: the key is added once send_slack was called, raised or not
NewSeenOnceTried(ns, key, outcome) ==
    IF outcome \in {"posted", "send_slack_raised"} THEN ns \cup {key} ELSE ns

\* faulty variant: new_seen is assigned the key instead of growing by it
NewSeenReplaced(ns, key, outcome) == IF outcome = "posted" THEN {key} ELSE ns

\* new_seen.add(key) is reached when neither call raised
NewSeenAfter(ns, key, outcome) == IF outcome = "posted" THEN ns \cup {key} ELSE ns

\* faulty variant: the identities of this run are left out of what is saved
SavedSetLoadedOnly(s, ns) == s

\* seen.union(new_seen), the argument of save_cache
SavedSet(s, ns) == s \cup ns

\* faulty variant: save_cache indented into the outer loop
SaveInsideLoop(i) == i > 1

\* save_cache is called after the outer loop finishes
AllAdaptersDone(i) == i > Len(SCRAPER_FUNCS)

\* the components the pass called
CallsOf(outcome) ==
    CASE outcome = "skip" -> {}
      [] outcome = "summarise_raised" -> {"summarise"}
      [] OTHER -> {"summarise", "send_slack"}

\* the arguments of send_slack when the pass called it
NoMsg == [title |-> "", summary |-> <<>>]
MsgOf(outcome, res) ==
    IF outcome \in {"send_slack_raised", "posted"}
    THEN [title |-> res.title, summary |-> res.preview]
    ELSE NoMsg

NoStep == [url |-> "", descr |-> <<>>, raises |-> "none", outcome |-> "none",
           calls |-> {}, msg |-> NoMsg]

NoResult == [raised |-> FALSE, title |-> "", preview |-> <<>>]
NoCall == [state |-> "none", url |-> "", fallback_text |-> <<>>,
           art |-> Article("none", "", <<>>), result |-> NoResult]
\* The candidates and the failures are kept for a run that completed
NoPrev == [pc |-> "none", err |-> "none", seen |-> {}, delivered |-> {},
           yielded |-> {}, failures |-> FALSE]

SentUrls == {sent[i].url : i \in 1..Len(sent)}

Running == {"load", "loop", "iter", "dump"}
Ended == {"done", "error", "killed"}

Init ==
    /\ file \in InitFiles
    /\ startFile = file
    /\ pc = "load"
    /\ err = "none"
    /\ run = 1
    /\ seen = {}
    /\ new_seen = {}
    /\ fi = 1
    /\ found = FALSE
    /\ sent = <<>>
    /\ lastStep = NoStep
    /\ failed = {}
    /\ yielded = {}
    /\ cands = 0
    /\ writes = 0
    /\ warned = FALSE
    /\ prev = NoPrev
    /\ call = NoCall
    /\ lastPost = NoSend
    /\ scrape = NoScrape
    /\ firsts = <<>>

\* seen = load_cache(); new_seen = set()
Load ==
    /\ pc = "load"
    /\ LET got == load_cache(file) IN
        IF got.raised
        THEN /\ pc' = "error"
             /\ err' = "load"
             /\ UNCHANGED seen
        ELSE /\ pc' = "loop"
             /\ seen' = got.value
             /\ UNCHANGED err
    /\ new_seen' = {}
    /\ UNCHANGED <<fi, file, run, found, sent, lastStep, failed, yielded,
                   cands, writes, startFile, warned, prev, call, lastPost, scrape, firsts>>

\* for fn in SCRAPER_FUNCS: found = False; fn() is called
StartScraper ==
    /\ pc = "loop"
    /\ fi <= Len(SCRAPER_FUNCS)
    /\ pc' = "iter"
    /\ found' = FALSE
    /\ UNCHANGED <<file, err, run, seen, new_seen, fi, sent, lastStep,
                   failed, yielded, cands, writes, startFile, warned, prev, call, lastPost, scrape, firsts>>

\* for entry in fn(): the adapter yields entry, and the body of the loop runs
CandidateFrom(entries, articles, responses) ==
    /\ pc = "iter"
    /\ cands < MaxCands
    /\ \E entry \in entries, art \in articles, r \in responses :
        LET url == EntryUrl(entry)
            descr == EntryDescr(entry)
            key == hash_url(url)
            res == summarise(url, descr, art)
            outcome == StepOutcome(key, seen, new_seen, res, r)
            raised == outcome \in {"summarise_raised", "send_slack_raised"}
        IN  /\ found' = FoundAfter(found, outcome)
            /\ cands' = cands + 1
            /\ yielded' = yielded \cup {url}
            /\ firsts' = IF url \in yielded THEN firsts ELSE Append(firsts, url)
            /\ new_seen' = NewSeenAfter(new_seen, key, outcome)
            /\ sent' = IF outcome = "posted"
                       THEN Append(sent, [url |-> url, fn |-> fi])
                       ELSE sent
            /\ failed' = IF raised THEN failed \cup {url} ELSE failed
            /\ lastStep' = [url |-> url,
                            descr |-> IF outcome = "skip" THEN <<>> ELSE descr,
                            raises |-> IF outcome = "skip" THEN "none" ELSE art.raises,
                            outcome |-> outcome, calls |-> CallsOf(outcome),
                            msg |-> MsgOf(outcome, res)]
            /\ lastPost' = IF "send_slack" \in CallsOf(outcome)
                           THEN send_slack(r) ELSE lastPost
            /\ pc' = IF raised /\ ~CaughtByMain(outcome) THEN "error" ELSE "iter"
            /\ err' = IF raised /\ ~CaughtByMain(outcome) THEN "article" ELSE err
    /\ UNCHANGED <<file, run, seen, fi, writes, startFile, warned, prev, call, scrape>>

Candidate == CandidateFrom(Entries, Articles, Responses)

\* faulty variant: the outer loop steps over every other adapter
NextAdapterSkips(i) == i + 2

\* for fn in SCRAPER_FUNCS: the adapter after the i-th
NextAdapter(i) == i + 1

\* the adapter is exhausted: if not found, the ZERO URLs warning; next adapter
AdapterExhausted ==
    /\ pc = "iter"
    /\ warned' = WarnsZero(found)
    /\ fi' = NextAdapter(fi)
    /\ pc' = "loop"
    /\ UNCHANGED <<file, err, run, seen, new_seen, found, sent, lastStep,
                   failed, yielded, cands, writes, startFile, prev, call, lastPost, scrape, firsts>>

\* the adapter raises: fn() when it is called, or the generator at a later
\* step. Nothing in main catches it.
AdapterRaise ==
    /\ pc = "iter"
    /\ IsGenerator(SCRAPER_FUNCS[fi]) \/ ~found
    /\ pc' = "error"
    /\ err' = "adapter"
    /\ UNCHANGED <<file, run, seen, new_seen, fi, found, sent, lastStep,
                   failed, yielded, cands, writes, startFile, warned, prev, call, lastPost, scrape, firsts>>

\* save_cache: open(CACHE_FILE, "w") truncates the file, or raises
SaveOpen ==
    /\ pc = "loop"
    /\ AllAdaptersDone(fi)
    /\ \E opened \in BOOLEAN :
        IF opened
        THEN /\ file' = Truncated(<<>>)
             /\ writes' = writes + 1
             /\ pc' = "dump"
             /\ UNCHANGED err
        ELSE /\ pc' = "error"
             /\ err' = "save"
             /\ UNCHANGED <<file, writes>>
    /\ UNCHANGED <<run, seen, new_seen, fi, found, sent, lastStep,
                   failed, yielded, cands, startFile, warned, prev, call, lastPost, scrape, firsts>>

\* save_cache: json.dump(sorted(cache), f) and the close of the file write the
\* whole array, or raise having written some of it
SaveDump ==
    /\ pc = "dump"
    /\ \E written \in BOOLEAN :
        IF written
        THEN /\ file' = Dumped(SavedSet(seen, new_seen))
             /\ pc' = "done"
             /\ UNCHANGED err
        ELSE /\ \E part \in Prefixes(Sorted(SavedSet(seen, new_seen))) :
                    file' = Truncated(part)
             /\ pc' = "error"
             /\ err' = "save"
    /\ UNCHANGED <<run, seen, new_seen, fi, found, sent, lastStep,
                   failed, yielded, cands, writes, startFile, warned, prev, call, lastPost, scrape, firsts>>

\* what the store can hold when the process is terminated inside save_cache,
\* after open() truncated the file: what was flushed so far, or, once the
\* with block has closed the file and save_cache has not yet returned, the
\* whole array
KilledInSave(cache) ==
    {Truncated(part) : part \in Prefixes(Sorted(cache))} \cup {Dumped(cache)}

\* The process is terminated. Before save_cache the store is as the run found
\* it.
Kill ==
    /\ pc \in Running
    /\ pc' = "killed"
    /\ IF pc = "dump"
       THEN file' \in KilledInSave(SavedSet(seen, new_seen))
       ELSE UNCHANGED file
    /\ UNCHANGED <<err, run, seen, new_seen, fi, found, sent, lastStep,
                   failed, yielded, cands, writes, startFile, warned, prev, call, lastPost, scrape, firsts>>

\* The scheduler starts the job again: a new process, the same CACHE_FILE
NextRun ==
    /\ pc \in Ended
    /\ run < MaxRuns
    /\ run' = run + 1
    /\ prev' = [pc |-> pc, err |-> err, seen |-> seen, delivered |-> SentUrls,
                yielded |-> IF pc = "done" THEN yielded ELSE {},
                failures |-> pc = "done" /\ failed # {}]
    /\ startFile' = file
    /\ pc' = "load"
    /\ err' = "none"
    /\ seen' = {}
    /\ new_seen' = {}
    /\ fi' = 1
    /\ found' = FALSE
    /\ sent' = <<>>
    /\ lastStep' = NoStep
    /\ failed' = {}
    /\ yielded' = {}
    /\ cands' = 0
    /\ writes' = 0
    /\ warned' = FALSE
    /\ lastPost' = NoSend
    /\ firsts' = <<>>
    /\ UNCHANGED <<file, call, scrape>>

\* One run of the job, from any store an earlier run can have left
Next ==
    \/ Load
    \/ StartScraper
    \/ Candidate
    \/ AdapterExhausted
    \/ AdapterRaise
    \/ SaveOpen
    \/ SaveDump
    \/ Kill

Spec == Init /\ [][Next]_vars

\* Successive runs of the job, the first one on a machine with no store
InitRuns == Init /\ file = NoFile

\* the sites publish two articles over these runs
TwoURLs == {"https://x/a", "https://x/j"}

\* over these runs the webhook accepts a message or answers with a server error
AcceptOrError == {Response(200), Response(500)}

TwoEntries == {Bare(u) : u \in TwoURLs}

CandidateOfTwo == CandidateFrom(TwoEntries, Articles, AcceptOrError)

NextRuns ==
    \/ Load
    \/ StartScraper
    \/ CandidateOfTwo
    \/ AdapterExhausted
    \/ AdapterRaise
    \/ SaveOpen
    \/ SaveDump
    \/ Kill
    \/ NextRun

SpecRuns == InitRuns /\ [][NextRuns]_vars

\* One run of the job with feed adapters, whose entries have a link and a
\* summary, on a machine whose store holds no identity
FeedURLs == {"https://x/a", "https://x/b"}

Descrs == {<<>>, LaunchText, PlainText}

FeedArticles ==
    {Article("Article", "", <<>>), Article("download", "", <<>>),
     Article("parse", "", <<>>), Article("none", "", ShortBody)}

InitFeed == Init /\ file = NoFile

\* the feed entries: a link and a summary
FeedEntries == {FeedEntry(u, t) : u \in FeedURLs, t \in Descrs}

CandidateOfFeed == CandidateFrom(FeedEntries, FeedArticles, UsualResponses)

NextFeed ==
    \/ Load
    \/ StartScraper
    \/ CandidateOfFeed
    \/ AdapterExhausted
    \/ AdapterRaise
    \/ SaveOpen
    \/ SaveDump
    \/ Kill

SpecFeed == InitFeed /\ [][NextFeed]_vars

----------------------------------------------------------------------------
(* summarise on its own: one call, on every input of the sets below *)

\* a text of k characters, with no whitespace and no final mark
Filler(k) == [i \in 1..k |-> "x"]

\* the lengths of feed text around the FallbackChars characters kept
LongTexts == {Filler(FallbackChars - 1), Filler(FallbackChars), Filler(FallbackChars + 1)}

SummariseTexts ==
    {t : t \in Descrs \cup LongTexts \cup {<<"!">>, <<"O","K","?">>}}

\* the k-th word of a long body: the three digits of k
Word(k) ==
    <<Digits[((k \div 100) % 10) + 1], Digits[((k \div 10) % 10) + 1],
      Digits[(k % 10) + 1]>>

\* the whitespace before the k-th word: a newline, a space, the two, a form
\* feed, or a no-break space and a tab
Gap(k) ==
    CASE k % 5 = 0 -> <<"\n">>
      [] k % 5 = 1 -> <<" ">>
      [] k % 5 = 2 -> <<" ", "\n">>
      [] k % 5 = 3 -> <<"\f">>
      [] OTHER -> <<"U+00A0", "\t">>

\* the words lo..hi of a body, each after its whitespace
RECURSIVE BodyOf(_, _)
BodyOf(lo, hi) ==
    IF lo = hi THEN Word(lo)
    ELSE LET mid == (lo + hi) \div 2 IN
         BodyOf(lo, mid) \o Gap(mid + 1) \o BodyOf(mid + 1, hi)

\* a body of k words
Body(k) == BodyOf(1, k)

\* the same body with whitespace at both ends
Padded(body) == <<"\n", " ">> \o body \o <<" ">>

\* the numbers of words around the PreviewWords words kept
BodyWords == {1, PreviewWords - 1, PreviewWords, PreviewWords + 1}

LongBodies ==
    {IF pad THEN Padded(Body(k)) ELSE Body(k) : k \in BodyWords, pad \in BOOLEAN}

SummariseArticles ==
    {a : a \in
        {Article(step, "", <<>>) : step \in BeforeTry \cup InTry}
            \cup {Article("none", t, b) : t \in {"", "ICEYE expands"},
                                          b \in {<<>>, ShortBody, LaunchText}}
            \cup {Article("none", "ICEYE expands", b) : b \in LongBodies}}

InitSummarise ==
    /\ Init
    /\ file = NoFile

\* summarise(url, fallback_text) is called
CallSummarise ==
    /\ call.state = "none"
    /\ \E url \in URLs, text \in SummariseTexts, art \in SummariseArticles :
        call' = [state |-> "called", url |-> url, fallback_text |-> text, art |-> art,
                 result |-> NoResult]
    /\ UNCHANGED <<file, pc, err, run, seen, new_seen, fi, found, sent, lastStep, failed,
                   yielded, cands, writes, startFile, warned, prev, lastPost, scrape, firsts>>

\* it returns, or raises
ReturnSummarise ==
    /\ call.state = "called"
    /\ call' = [call EXCEPT !.state = "returned",
                            !.result = summarise(call.url, call.fallback_text, call.art)]
    /\ UNCHANGED <<file, pc, err, run, seen, new_seen, fi, found, sent, lastStep, failed,
                   yielded, cands, writes, startFile, warned, prev, lastPost, scrape, firsts>>

NextSummarise ==
    \/ CallSummarise
    \/ ReturnSummarise

SpecSummarise == InitSummarise /\ [][NextSummarise]_vars

----------------------------------------------------------------------------
(* A static-HTML adapter on its own: one iteration over one page *)

\* the anchors soup.select("a") returns are at most this many
MaxAnchors == 3

\* "Read more", "\f Read more\n", "Read more >", "> Read more", "About"
AnchorTexts ==
    {ReadMore, <<"\f", " ">> \o ReadMore \o <<"\n">>, ReadMore \o <<" ", ">">>,
     <<">", " ">> \o ReadMore, <<"A","b","o","u","t">>}

\* no href; "/n/b"; "https://x/a"; "../c"; "//[x", which urljoin rejects
AnchorAttrs ==
    {NoAttrs, Href(<<"/","n","/","b">>),
     Href(<<"h","t","t","p","s",":","/","/","x","/","a">>),
     Href(<<".",".","/","c">>), Href(<<"/","/","[","x">>)}

Anchors == {Anchor(t, at) : t \in AnchorTexts, at \in AnchorAttrs}

Pages == {p : p \in UNION {[1..k -> Anchors] : k \in 0..MaxAnchors}}

StaticAdapters == {"get_iceye_urls", "get_rocketlab_urls"}

InitAdapters ==
    /\ Init
    /\ file = NoFile

\* the adapter is called and its body starts: requests.get returns the page,
\* or raises
ScrapeCall ==
    /\ scrape.state = "none"
    /\ \E fn \in StaticAdapters, page \in Pages, got \in BOOLEAN :
        scrape' = [state |-> IF got THEN "iterating" ELSE "unavailable",
                   fn |-> fn, page |-> IF got THEN page ELSE <<>>,
                   pos |-> 0, out |-> <<>>]
    /\ UNCHANGED <<file, pc, err, run, seen, new_seen, fi, found, sent, lastStep,
                   failed, yielded, cands, writes, startFile, warned, prev, call,
                   lastPost, firsts>>

\* for a in soup.select("a"): the next anchor is tested, and yielded from
ScrapeNext ==
    /\ scrape.state = "iterating"
    /\ scrape.pos < Len(scrape.page)
    /\ LET a == scrape.page[scrape.pos + 1] IN
        scrape' =
            IF ~Matches(scrape.fn, a)
            THEN [scrape EXCEPT !.pos = @ + 1]
            ELSE IF YieldRaises(scrape.fn, a)
            THEN [scrape EXCEPT !.pos = @ + 1, !.state = "raised"]
            ELSE [scrape EXCEPT !.pos = @ + 1,
                                !.out = Append(@, Yielded(scrape.fn, a))]
    /\ UNCHANGED <<file, pc, err, run, seen, new_seen, fi, found, sent, lastStep,
                   failed, yielded, cands, writes, startFile, warned, prev, call,
                   lastPost, firsts>>

\* the loop over the anchors is over: the generator is exhausted
ScrapeEnd ==
    /\ scrape.state = "iterating"
    /\ scrape.pos = Len(scrape.page)
    /\ scrape' = [scrape EXCEPT !.state = "exhausted"]
    /\ UNCHANGED <<file, pc, err, run, seen, new_seen, fi, found, sent, lastStep,
                   failed, yielded, cands, writes, startFile, warned, prev, call,
                   lastPost, firsts>>

NextAdapters ==
    \/ ScrapeCall
    \/ ScrapeNext
    \/ ScrapeEnd

SpecAdapters == InitAdapters /\ [][NextAdapters]_vars

----------------------------------------------------------------------------
(* Properties *)

KeysOf(urls) == {hash_url(u) : u \in urls}

\* what load_cache reads from the store as it is now
Stored == load_cache(file).value

\* C1: in-run deduplication. In every state of a run no URL has two
\* notifications sent, and the identity of every URL notified in this run is
\* in the in-run accumulator and was not in the loaded Seen-Set, so that a
\* later occurrence of the URL is skipped.
C1_AtMostOneNotificationPerUrl ==
    /\ \A i, j \in 1..Len(sent) : sent[i].url = sent[j].url => i = j
    /\ \A i \in 1..Len(sent) :
            hash_url(sent[i].url) \in new_seen /\ hash_url(sent[i].url) \notin seen

\* C1: a URL notified for one adapter was yielded again by a later adapter and skipped
C1_Witness ==
    /\ pc = "iter"
    /\ lastStep.outcome = "skip"
    /\ hash_url(lastStep.url) \notin seen
    /\ \E i \in 1..Len(sent) : sent[i].url = lastStep.url /\ sent[i].fn < fi
    /\ Len(sent) = 1

\* C2: article-level failure isolation. No exception of summarise or
\* send_slack ends the run, and the store a completed run has written holds
\* the loaded identities and those of the URLs notified in this run, and not
\* the identity of a URL whose attempts all failed.
C2_ArticleFailureIsolated ==
    /\ err # "article"
    /\ pc = "done" =>
            /\ file.kind = "array"
            /\ Stored = seen \cup KeysOf(SentUrls)
            /\ \A u \in failed \ SentUrls : hash_url(u) \notin Stored

\* C2: three candidates, the notifier failed for the last one, the other two
\* were notified and are persisted, and the run completed
C2_Witness ==
    /\ pc = "done"
    /\ cands = 3
    /\ Len(sent) = 2
    /\ lastStep.outcome = "send_slack_raised"
    /\ lastStep.url \notin SentUrls
    /\ KeysOf(SentUrls) \subseteq Stored
    /\ hash_url(lastStep.url) \notin Stored

\* C3: source-level failure isolation. A run ends in error only for a failure
\* of the load or of the save of the Seen-Set: an adapter that raises does
\* not end the run.
C3_OnlyStorageFailureAborts == pc = "error" => err \in {"load", "save"}

\* C4: at-least-once. When the save of the previous run failed after it had
\* sent notifications, this run loads the Seen-Set the previous run had
\* loaded, and every URL notified in the previous run that is yielded again
\* is attempted again.
C4_RedeliveryAfterFailedSave ==
    (run > 1 /\ prev.err = "save" /\ prev.delivered # {}) =>
        /\ err # "load"
        /\ pc = "load" => load_cache(file) = [raised |-> FALSE, value |-> prev.seen]
        /\ pc \in {"loop", "iter", "dump", "done"} =>
                /\ seen = prev.seen
                /\ (prev.delivered \cap yielded) \subseteq (SentUrls \cup failed)

\* C5: save atomicity. A run that ended in error or was terminated, at any
\* point, leaves in the store the complete content it had when the run started.
C5_StoreIntactAfterFailedRun == pc \in {"error", "killed"} => file = startFile

\* C6: a candidate whose identity is in the loaded Seen-Set is skipped without
\* side effects: the pass through the loop body calls neither the resolver
\* nor the notifier and changes neither seen, new_seen, the notifications sent
\* nor the store; and a completed run whose candidates were all in the loaded
\* Seen-Set has sent nothing and has persisted the loaded Seen-Set.
C6_SeenCandidateSkipped ==
    /\ [][(pc = "iter" /\ cands' = cands + 1 /\ hash_url(lastStep'.url) \in seen)
              => (/\ lastStep'.calls = {}
                  /\ UNCHANGED <<seen, new_seen, sent, failed, file>>)]_vars
    /\ []((pc = "done" /\ KeysOf(yielded) \subseteq seen)
              => (sent = <<>> /\ file.kind = "array" /\ Stored = seen))

\* C6: a completed run whose candidates were all in the loaded Seen-Set
C6_Witness ==
    /\ pc = "done"
    /\ cands >= 1
    /\ KeysOf(yielded) \subseteq seen
    /\ lastStep.outcome = "skip"
    /\ sent = <<>>
    /\ Stored = seen

\* C7: idempotence across runs. After a run that completed, the store reads
\* back as the set that run saved; the next run attempts no URL notified in
\* the completed run; and when the completed run had no failure and the next
\* run yields only URLs of the completed run, the next run sends nothing and
\* persists the same store.
C7_SecondRunIdempotent ==
    (run > 1 /\ prev.pc = "done") =>
        /\ pc = "load" =>
                load_cache(file) =
                    [raised |-> FALSE, value |-> prev.seen \cup KeysOf(prev.delivered)]
        /\ (SentUrls \cup failed) \cap prev.delivered = {}
        /\ (pc = "done" /\ ~prev.failures /\ yielded \subseteq prev.yielded) =>
                (sent = <<>> /\ failed = {} /\ file = startFile)

\* C7: a second run that was handed again the URLs notified in the first run
\* and completed
C7_Witness ==
    /\ run = 2
    /\ prev.pc = "done"
    /\ prev.delivered # {}
    /\ ~prev.failures
    /\ pc = "done"
    /\ yielded = prev.yielded
    /\ sent = <<>>
    /\ file = startFile

\* C10: the store is opened for writing at most once in a run, only after the
\* last adapter is exhausted, exactly once in a completed run; until then it
\* holds the content it had when the run started.
C10_StoreWrittenOnceAtTheEnd ==
    /\ writes <= 1
    /\ writes = 0 => file = startFile
    /\ writes = 1 => (fi > Len(SCRAPER_FUNCS) /\ pc \notin {"load", "loop", "iter"})
    /\ pc = "done" => writes = 1

\* C10: a completed run that notified something and wrote the store
C10_Witness ==
    /\ pc = "done"
    /\ writes = 1
    /\ sent # <<>>
    /\ file # startFile
    /\ Stored = seen \cup new_seen

\* the fallback preview for a feed text, with or without the ellipsis marker
FallbackPreviews(text) ==
    {OrElse(Slice(text, FallbackChars), NoPreview),
     OrElse(Slice(text, FallbackChars), NoPreview) \o Ellipsis}

\* C8: the resolver never raises. Every call of summarise returns, and when a
\* step of the fetch-and-extract path raised, Config() and Article(...)
\* included, it returns the fallback title and the fallback preview.
C8_SummariseNeverRaises ==
    call.state = "returned" =>
        /\ ~call.result.raised
        /\ call.art.raises # "none" =>
                /\ call.result.title = "Untitled (feed)"
                /\ call.result.preview \in FallbackPreviews(call.fallback_text)

\* Scenario A: the loaded Seen-Set is empty, the run completed, its one
\* candidate was the entry (https://x/a, "Launch successful today."), the
\* fetch of the article raised, and no call raised out of the loop body
ScenarioA ==
    /\ pc = "done"
    /\ seen = {}
    /\ cands = 1
    /\ lastStep.url = "https://x/a"
    /\ lastStep.descr = LaunchText
    /\ lastStep.raises \in {"download", "parse"}
    /\ failed = {}

\* "Launch successful" and the ellipsis marker
LaunchCut == Slice(LaunchText, Len(LaunchText) - Len(<<" ","t","o","d","a","y",".">>)) \o Ellipsis

\* C9 as stated: in scenario A one notification is sent, with the fallback
\* title and the preview "Launch successful" followed by the ellipsis marker,
\* and the store holds exactly the identity of the URL.
C9_ScenarioA_AsStated ==
    ScenarioA =>
        /\ Len(sent) = 1
        /\ sent[1].url = "https://x/a"
        /\ lastStep.msg.title = "Untitled (feed)"
        /\ lastStep.msg.summary = LaunchCut
        /\ file = Dumped({hash_url("https://x/a")})

\* C9, amended: in scenario A one notification is sent, with the fallback
\* title and the whole feed text "Launch successful today." as preview (it
\* ends in a full stop, so no marker is appended), and the store holds
\* exactly the identity of the URL.
C9_ScenarioA ==
    ScenarioA =>
        /\ Len(sent) = 1
        /\ sent[1].url = "https://x/a"
        /\ lastStep.msg.title = "Untitled (feed)"
        /\ lastStep.msg.summary = LaunchText
        /\ file = Dumped({hash_url("https://x/a")})

\* C9: scenario A happened, and the notification was sent
C9_Witness ==
    /\ ScenarioA
    /\ lastStep.outcome = "posted"
    /\ Len(sent) = 1
    /\ Stored = {hash_url("https://x/a")}

\* C11: Seen-Set growth. Within a run seen and new_seen only grow; new_seen
\* holds exactly the identities of the URLs whose notification was sent in
\* this run and is disjoint from the loaded Seen-Set; and the store a
\* completed run has written holds exactly the loaded identities and these.
C11_SeenSetGrowth ==
    /\ [][seen \subseteq seen' /\ new_seen \subseteq new_seen']_vars
    /\ [](new_seen = KeysOf(SentUrls))
    /\ [](new_seen \cap seen = {})
    /\ [](pc = "done" =>
            /\ file = JsonArray(Sorted(seen \cup KeysOf(SentUrls)))
            /\ seen \subseteq Range(file.items))

\* C11: a completed run that loaded identities and added two of its own
C11_Witness ==
    /\ pc = "done"
    /\ seen # {}
    /\ Cardinality(new_seen) = 2
    /\ Range(file.items) = seen \cup new_seen
    /\ failed # {}

\* the identities in the store when the run started, when it can be parsed
StartKeys == IF startFile.kind = "array" THEN Range(startFile.items) ELSE {}

\* C12: loading. Past the load, seen is the set the store held when the run
\* started, the empty set when there was no store; a run that found a store
\* it cannot parse ends in error in the load, having run no adapter, sent
\* no notification and written nothing.
C12_LoadOrAbort ==
    /\ pc \in {"loop", "iter", "dump", "done"} =>
            (startFile.kind # "truncated" /\ seen = StartKeys)
    /\ startFile.kind = "truncated" =>
            /\ pc \in {"load", "error", "killed"}
            /\ pc = "error" => err = "load"
            /\ fi = 1 /\ cands = 0 /\ lastStep = NoStep
            /\ sent = <<>>
            /\ writes = 0 /\ file = startFile
    /\ err = "load" => startFile.kind = "truncated"

\* C12: a run that found a cut store with one identity in it and aborted
C12_Witness ==
    /\ pc = "error"
    /\ err = "load"
    /\ startFile = Truncated(<<hash_url("https://x/j")>>)
    /\ file = startFile

\* the response is a 2xx one
Is2xx(send) == send.status >= 200 /\ send.status < 300

\* C13 (as stated): notifier protocol. A call of send_slack makes exactly one
\* outbound call; when the response is not a 2xx one the call raises and the
\* pass counts as failed (no retry, the identity is not added); when it is a
\* 2xx one the pause is executed before send_slack returns.
C13_NotifierProtocol ==
    "send_slack" \in lastStep.calls =>
        /\ lastPost.posts = 1
        /\ ~Is2xx(lastPost) =>
                /\ lastPost.raised
                /\ lastStep.outcome = "send_slack_raised"
                /\ hash_url(lastStep.url) \notin new_seen
        /\ Is2xx(lastPost) =>
                /\ lastPost.slept
                /\ lastStep.outcome = "posted"

\* a pass through the loop body that calls send_slack after an earlier call
\* of this run
NextDeliveryCall ==
    /\ cands' = cands + 1
    /\ "send_slack" \in lastStep'.calls
    /\ lastPost # NoSend

\* C14 (as stated): rate limit. Whatever the outcome of a delivery call, the
\* pause is executed before the next delivery call of the run.
C14_PauseBetweenAnyTwoCalls == [][NextDeliveryCall => lastPost.slept]_vars

\* the matching anchors of a page that have an href, in document order
RECURSIVE WellFormed(_, _)
WellFormed(fn, page) ==
    IF page = <<>> THEN <<>>
    ELSE IF Matches(fn, Head(page)) /\ ~YieldRaises(fn, Head(page))
    THEN <<Head(page)>> \o WellFormed(fn, Tail(page))
    ELSE WellFormed(fn, Tail(page))

\* C15 (as stated): a static-HTML adapter never raises on an anchor: once
\* the page is fetched the iteration reaches its end, and it has yielded the
\* href of every matching anchor that has one, in order, the anchors after a
\* matching anchor without href included.
C15_MalformedAnchorSkipped ==
    /\ scrape.state # "raised"
    /\ scrape.state = "exhausted" =>
            scrape.out = [i \in 1..Len(WellFormed(scrape.fn, scrape.page)) |->
                            Yielded(scrape.fn, WellFormed(scrape.fn, scrape.page)[i])]

\* the preview before line 173: the one of the try block, or of the except block
BuiltPreview ==
    IF call.art.raises = "none" THEN TryPreview(call.art)
    ELSE ExceptPreview(call.fallback_text)

SentenceEnds == {".", "!", "?"}

\* C16: preview termination. The preview summarise returns is not empty and
\* ends in '.', '!', '?' or the ellipsis marker: it is the preview built by
\* the try block or the except block, unchanged when that ends in '.', '!' or
\* '?', and with the marker appended when it does not, "(no preview)" included.
C16_PreviewTerminated ==
    (call.state = "returned" /\ ~call.result.raised) =>
        LET p == call.result.preview
            b == BuiltPreview
        IN  /\ p # <<>>
            /\ b # <<>>
            /\ p[Len(p)] \in SentenceEnds \cup {Ellipsis[1]}
            /\ b[Len(b)] \in SentenceEnds => p = b
            /\ b[Len(b)] \notin SentenceEnds => p = b \o Ellipsis
            /\ b = NoPreview => p = NoPreview \o Ellipsis

\* C16: the fetch raised and there is no feed text: "(no preview)" and the marker
C16_Witness ==
    /\ call.state = "returned"
    /\ call.art.raises \in InTry
    /\ call.fallback_text = <<>>
    /\ call.result.preview = NoPreview \o Ellipsis

\* the words lo..hi of a long body, with one space between two words
RECURSIVE Spaced(_, _)
Spaced(lo, hi) ==
    IF lo = hi THEN Word(lo)
    ELSE LET mid == (lo + hi) \div 2 IN
         Spaced(lo, mid) \o <<" ">> \o Spaced(mid + 1, hi)

\* the first m words of a long body, joined by single spaces
FirstWords(m) == Spaced(1, m)

\* C17: preview length bound. When the extraction succeeds on a body of k
\* words, k >= 1, the preview is its first min(k, 100) words, in order,
\* joined by single spaces whatever whitespace separates them in the body,
\* followed by nothing but the ellipsis marker when there is one.
C17_PreviewFirstHundredWords ==
    (call.state = "returned" /\ call.art.raises = "none") =>
        \A k \in BodyWords :
            call.art.text \in {Body(k), Padded(Body(k))} =>
                LET m == IF k < 100 THEN k ELSE 100 IN
                    /\ ~call.result.raised
                    /\ call.result.preview \in
                            {FirstWords(m), FirstWords(m) \o Ellipsis}
                    /\ Len(Split(call.result.preview)) = m

\* C17: a body of 101 words, with whitespace at both ends, cut to 100 words
C17_Witness ==
    /\ call.state = "returned"
    /\ call.art.text = Padded(Body(PreviewWords + 1))
    /\ call.result.preview = FirstWords(PreviewWords) \o Ellipsis

\* the steps of main the warning depends on
StartsAdapter == pc = "loop" /\ pc' = "iter"
TakesCandidate == cands' = cands + 1
LeavesAdapter == fi' = fi + 1

\* C18: zero-candidate warning. found is FALSE when an adapter starts, TRUE
\* after any candidate of it whatever the outcome of the pass, and changes
\* at no other step; when the adapter is exhausted the warning is emitted
\* for it exactly when found is FALSE, and the run goes on with the next
\* adapter (or the save) without error.
C18_ZeroUrlsWarning ==
    /\ [][StartsAdapter => ~found']_vars
    /\ [][TakesCandidate => found']_vars
    /\ [][found' # found => (StartsAdapter \/ TakesCandidate \/ run' # run)]_vars
    /\ [][LeavesAdapter =>
            /\ warned' <=> ~found
            /\ pc = "iter" /\ pc' = "loop" /\ err' = "none"]_vars
    /\ [][warned' # warned => (LeavesAdapter \/ run' # run)]_vars

\* C18: a completed run whose last adapter yielded candidates that were all
\* skipped or failed, and was not warned about
C18_Witness ==
    /\ pc = "done"
    /\ ~warned
    /\ found
    /\ sent = <<>>
    /\ seen # {}
    /\ failed # {}

\* the place of a URL in the order of first yield
FirstAt(url) == CHOOSE i \in 1..Len(firsts) : firsts[i] = url

\* C19 (as stated): the notifications of a run are in the order in which
\* their URLs first occur in what the adapters yield.
C19_SentInOrderOfFirstOccurrence ==
    \A i, j \in 1..Len(sent) :
        i < j => FirstAt(sent[i].url) < FirstAt(sent[j].url)

\* C19: processing order. The adapters are taken in the order of
\* SCRAPER_FUNCS, one after the exhaustion of the one before; the candidates
\* are processed as they are yielded; send_slack is called only with what
\* summarise returned for the same candidate; and the notifications are in
\* the order of the passes that sent them: by adapter, and by first
\* occurrence of the URL except for a URL that had a failed attempt before.
C19_ProcessingOrder ==
    /\ [][fi' # fi =>
            \/ fi' = fi + 1 /\ pc = "iter" /\ pc' = "loop"
            \/ run' # run]_vars
    /\ [](pc = "iter" => fi \in 1..Len(SCRAPER_FUNCS))
    /\ [][TakesCandidate =>
            /\ lastStep'.url \in Range(firsts')
            /\ lastStep'.url \notin Range(firsts) =>
                    firsts' = Append(firsts, lastStep'.url)
            /\ lastStep'.url \in Range(firsts) => firsts' = firsts
            /\ "send_slack" \in lastStep'.calls =>
                    /\ "summarise" \in lastStep'.calls
                    /\ lastStep'.outcome # "summarise_raised"
            /\ lastStep'.outcome = "posted" =>
                    sent' = Append(sent, [url |-> lastStep'.url, fn |-> fi])
            /\ lastStep'.outcome # "posted" => sent' = sent]_vars
    /\ [](\A i, j \in 1..Len(sent) :
            i < j =>
                /\ sent[i].fn <= sent[j].fn
                /\ \/ FirstAt(sent[i].url) < FirstAt(sent[j].url)
                   \/ sent[j].url \in failed)

\* C19: b was sent before a, which was yielded first and failed first
C19_Witness ==
    /\ Len(sent) = 2
    /\ firsts = <<"https://x/a", "https://x/b">>
    /\ sent[1].url = "https://x/b"
    /\ sent[2].url = "https://x/a"
    /\ sent[1].fn < sent[2].fn
    /\ "https://x/a" \in failed

\* the pass of this step ended in a failure of summarise or of send_slack
FailedAttempt ==
    TakesCandidate /\ lastStep'.outcome \in {"summarise_raised", "send_slack_raised"}

\* C20: a failure is not remembered within a run. A failed attempt changes
\* neither seen nor new_seen and the loop goes on; a candidate whose
\* identity is in neither set, one that failed before included, is resolved
\* again, and sent when the resolver returns; once its notification was
\* sent a URL is skipped with no call.
C20_FailureNotRemembered ==
    /\ [][FailedAttempt =>
            /\ seen' = seen /\ new_seen' = new_seen
            /\ sent' = sent
            /\ lastStep'.url \in failed'
            /\ pc' = "iter"]_vars
    /\ [][(TakesCandidate /\ hash_url(lastStep'.url) \notin seen \cup KeysOf(SentUrls)) =>
            /\ "summarise" \in lastStep'.calls
            /\ lastStep'.outcome # "summarise_raised" =>
                    "send_slack" \in lastStep'.calls]_vars
    /\ [][(TakesCandidate /\ lastStep'.url \in SentUrls) =>
            /\ lastStep'.outcome = "skip"
            /\ lastStep'.calls = {}
            /\ sent' = sent]_vars
    /\ [](\A u \in failed : u \notin SentUrls => hash_url(u) \notin new_seen)

\* C20: a URL that failed earlier in the run was yielded again and sent
C20_Witness ==
    /\ lastStep.outcome = "posted"
    /\ lastStep.url \in failed
    /\ lastStep.url = sent[Len(sent)].url
    /\ cands >= 2

====
